---- MODULE Spec2Model ----
(***************************************************************************)
(* Threshold multisig governance and nonce sequencing of nightfall_3:      *)
(*   - the administrator's UI control loop start()                         *)
(*     (nightfall-administrator/src/ui/get-info.mjs),                      *)
(*   - the call builder ContractMultiSig                                   *)
(*     (nightfall-optimist/src/services/process-calldata.mjs),             *)
(*   - the transaction submission path Nf3.submitTransaction               *)
(*     (cli/lib/nf3.mjs).                                                  *)
(* helpers.mjs (verifyTransactions, addSignedTransaction,                  *)
(* executeMultiSigTransaction) and multisig.mjs (addMultiSigSignature) are *)
(* not among the sources; they are modelled from sections 4.4 - 4.6 of the *)
(* specification.                                                          *)
(***************************************************************************)
EXTENDS Integers, Sequences, FiniteSets, TLC

\* ------------------------------------------------------------------------
\* Configuration and bounds
\* ------------------------------------------------------------------------

\* config.MULTISIG.SIGNATURE_THRESHOLD, the ExecutionThreshold M
SIGNATURE_THRESHOLD == 2

\* base nonces the operator may type in: 0..MaxBaseNonce
MaxBaseNonce == 1

\* number of invocations of start() in one behaviour
MaxRuns == 2

\* number of runs of start() that die in the execution loop
MaxCrashes == 1

\* parameter values (new owner, token, ...) of a built call: 1..NumArgs
NumArgs == 2

\* concurrent calls of Nf3.submitTransaction on one instance
NumCalls == 3

\* what web3.eth.getTransactionCount can return: 0..MaxChainCount
MaxChainCount == 1

\* at most this many messages arrive on the websocket connections
MaxMessages == 3

\* the transactions the optimist can ask to have signed: 1..NumTxData
NumTxData == 2

\* the L2 block numbers a stored block can have: 0..MaxBlockNumber
MaxBlockNumber == 2

\* block hashes: 1..NumHashes
NumHashes == 2

\* the on-chain blockHashes record holds at most this many blocks
MaxOnChain == 3

\* leafCount and nCommitments of a proposed block: 0..MaxLeaves
MaxLeaves == 1

\* the key-holders, named by the address their signatures recover to
Signers == {"X", "Y", "Z"}

\* the key-holder who runs this administrator and types their key into the
\* create workflow; the others' signatures arrive through the add workflow
LocalSigners == {"X"}

BaseNonces == 0..MaxBaseNonce

Args == 1..NumArgs

\* an element of approved: the signatures addSignedTransaction returned, or
\* the value of a variable that was never assigned (let approvals;)
Approvals(sigs) == [defined |-> TRUE, sigs |-> sigs]

Undefined == [defined |-> FALSE, sigs |-> <<>>]

\* ------------------------------------------------------------------------
\* ContractMultiSig: the MultiSigCallBuilder
\* ------------------------------------------------------------------------

\* this.contractInstancesOwnables, in the order the constructor pushes them
contractInstancesOwnables == <<"shield", "state", "proposers", "challenges">>

\* this.contractInstancesPausables, in the order the constructor pushes them
contractInstancesPausables == <<"shield", "state">>

\* contractInstance.methods.<method>(<arg>).encodeABI(): the encoding binds
\* the method and its parameter
encodeABI(method, arg) == [method |-> method, arg |-> arg]

\* the call handed to multiSig.addMultiSigSignature(data, key, address, executor, nonce)
MultiSigCall(to, data, nonce) == [to |-> to, data |-> data, nonce |-> nonce]

transferOwnershipNoOffset(newOwner, nonce) ==
    [i \in 1..Len(contractInstancesOwnables) |->
        MultiSigCall(contractInstancesOwnables[i],
                     encodeABI("transferOwnership", newOwner), nonce)]

\* ContractMultiSig.transferOwnership: map((ownable, i) => ... nonce + i), i 0-based
transferOwnership(newOwner, nonce) ==
    [i \in 1..Len(contractInstancesOwnables) |->
        MultiSigCall(contractInstancesOwnables[i],
                     encodeABI("transferOwnership", newOwner), nonce + (i - 1))]

setTokenRestrictions(token, nonce) ==
    << MultiSigCall("shield", encodeABI("setRestriction", token), nonce) >>

removeTokenRestrictions(token, nonce) ==
    << MultiSigCall("shield", encodeABI("removeRestriction", token), nonce) >>

pauseContracts(nonce) ==
    [i \in 1..Len(contractInstancesPausables) |->
        MultiSigCall(contractInstancesPausables[i],
                     encodeABI("pause", 0), nonce + (i - 1))]

unpauseContracts(nonce) ==
    [i \in 1..Len(contractInstancesPausables) |->
        MultiSigCall(contractInstancesPausables[i],
                     encodeABI("unpause", 0), nonce + (i - 1))]

setBootProposer(newProposer, nonce) ==
    << MultiSigCall("shield", encodeABI("setBootProposer", newProposer), nonce) >>

setBootChallenger(newChallenger, nonce) ==
    << MultiSigCall("shield", encodeABI("setBootChallenger", newChallenger), nonce) >>

setMaticAddress(newMaticAddress, nonce) ==
    << MultiSigCall("shield", encodeABI("setMaticAddress", newMaticAddress), nonce) >>

\* the methods of ContractMultiSig
Methods ==
    { "transferOwnership", "setTokenRestrictions", "removeTokenRestrictions",
      "pauseContracts", "unpauseContracts", "setBootProposer",
      "setBootChallenger", "setMaticAddress" }

\* the calls one method of ContractMultiSig hands to addMultiSigSignature
BuildBundle(method, arg, nonce) ==
    CASE method = "transferOwnership"       -> transferOwnership(arg, nonce)
      [] method = "setTokenRestrictions"    -> setTokenRestrictions(arg, nonce)
      [] method = "removeTokenRestrictions" -> removeTokenRestrictions(arg, nonce)
      [] method = "pauseContracts"          -> pauseContracts(nonce)
      [] method = "unpauseContracts"        -> unpauseContracts(nonce)
      [] method = "setBootProposer"         -> setBootProposer(arg, nonce)
      [] method = "setBootChallenger"       -> setBootChallenger(arg, nonce)
      [] method = "setMaticAddress"         -> setMaticAddress(arg, nonce)

\* ------------------------------------------------------------------------
\* SignatureCollector, ThresholdGate and the on-chain multisig
\* (helpers.mjs and multisig.mjs, modelled from the specification)
\* ------------------------------------------------------------------------

\* Sign (4.4): a PartialSignature over the canonical payload of a call; by is
\* the address recovery yields, ok is whether the bytes parse and recover
Sign(call, signer) == [call |-> call, by |-> signer, ok |-> TRUE]

\* the signatures held locally for a call, in insertion order; none for a
\* call that was never recorded
getSigned(st, call) == IF call \in DOMAIN st THEN st[call] ELSE <<>>

\* the local store with the signatures of one call replaced
saveSigned(st, call, sigs) ==
    [c \in DOMAIN st \cup {call} |-> IF c = call THEN sigs ELSE st[c]]

addSignedTransactionAppend(st, tx) ==
    saveSigned(st, tx.call, Append(getSigned(st, tx.call), tx))

addSignedTransactionCapped(st, tx) ==
    IF Len(getSigned(st, tx.call)) >= SIGNATURE_THRESHOLD
    THEN st
    ELSE saveSigned(st, tx.call, Append(getSigned(st, tx.call), tx))

addSignedTransactionReplace(st, tx) == saveSigned(st, tx.call, << tx >>)

\* Merge step (4): insert keyed by recovered address; a repeat address
\* overwrites the entry it already has
addSignedTransaction(st, tx) ==
    LET cur == getSigned(st, tx.call) IN
    IF \E i \in 1..Len(cur) : cur[i].by = tx.by
    THEN saveSigned(st, tx.call,
             [i \in 1..Len(cur) |-> IF cur[i].by = tx.by THEN tx ELSE cur[i]])
    ELSE saveSigned(st, tx.call, Append(cur, tx))

\* MultiSig.addMultiSigSignature: signs the call with the signing key and
\* stores the signature, which records the call locally
addMultiSigSignature(st, call, signingKey) ==
    addSignedTransaction(st, Sign(call, signingKey))

verifyTransactionsNoKnownCheck(st, signedTx) ==
    [g \in 1..Len(signedTx) |-> SelectSeq(signedTx[g], LAMBDA tx : tx.ok)]

\* Merge steps (1)-(3): every incoming signature must recover an address
\* (MalformedSignature) and cover a call known locally
\* (UnknownOrMismatchedCall); an offending signature is dropped, the others
\* of the batch are kept (section 7)
verifyTransactions(st, signedTx) ==
    [g \in 1..Len(signedTx) |->
        SelectSeq(signedTx[g], LAMBDA tx : tx.ok /\ tx.call \in DOMAIN st)]

ChainAcceptsAnyNonce(counter, call, signatures) ==
    Cardinality({signatures[i].by : i \in 1..Len(signatures)}) >= SIGNATURE_THRESHOLD

\* the on-chain multisig's execute entrypoint: the sole authority on nonce
\* and signature validity
ChainAccepts(counter, call, signatures) ==
    /\ call.nonce = counter
    /\ Cardinality({signatures[i].by : i \in 1..Len(signatures)}) >= SIGNATURE_THRESHOLD

\* ------------------------------------------------------------------------
\* start(): the administrator's UI control loop
\* ------------------------------------------------------------------------

VARIABLES
    store,       \* the signatures saved locally: call -> signatures in insertion order
    pc,          \* where start() is: idle, loop, await, done, failed
    input,       \* what askQuestions(false) returned to the running start(), and the
                 \* calls the store knew when it started
    approved,    \* let approved = []
    idx,         \* position of the execution loop in approved (1-based)
    executor,    \* let executor
    inflight,    \* the executions submitted and not yet answered by the network
    executed,    \* the executions of this run, in submission order, with their outcome
    chainNonce,  \* nonce() of the SimpleMultiSig contract
    chainLog,    \* the calls the SimpleMultiSig contract executed, in order
    crashes,     \* runs of start() that died in the execution loop
    nonceLog,    \* what the get nonce workflow of this run logged
    runs         \* invocations of start() so far

adminVars ==
    << store, pc, input, approved, idx, executor, inflight, executed, chainNonce,
       chainLog, crashes, nonceLog, runs >>

\* two successive uses of ContractMultiSig
VARIABLES
    built,       \* the latest use: method, parameter, base nonce, calls signed
    builtBefore  \* the use before it

builderVars == << built, builtBefore >>

\* Merge as a function: two incoming batches merged into one store, both ways
VARIABLES
    mStore,      \* the store the batches are merged into
    mS1,         \* a serialized batch
    mS2,         \* another one
    mResult      \* the stores the merges made, by the order they were made in

mergeVars == << mStore, mS1, mS2, mResult >>

\* one Nf3 instance and the calls of submitTransaction running on it
VARIABLES
    nf3Nonce,     \* this.nonce
    mutexQueue,   \* the calls waiting for this.nonceMutex, first come first
    mutexHolders, \* the calls inside the runExclusive callback
    callPc,       \* where each call is
    txOf,         \* let tx, of each call
    chainCount,   \* the transaction count the ethereum client reports
    broadcast,    \* the nonces handed to the network, in order
    ethereumAddress, \* this.ethereumAddress
    readFor,      \* per call: the address its pending getTransactionCount asked about
    nonceFrom     \* the address whose transaction count this.nonce was read from

nf3Vars == << nf3Nonce, mutexQueue, mutexHolders, callPc, txOf, chainCount, broadcast,
              ethereumAddress, readFor, nonceFrom >>

\* the websocket connections Nf3 opens to the optimist
VARIABLES
    wsSent,       \* what each method's connection sent when it opened
    wsMessages,   \* the messages the connections have all received, in order
    wsOut         \* per method: the txDataToSign it submitted or emitted, in order

emitterVars == << wsSent, wsMessages, wsOut >>

\* one call of getProposeBlockCalldata
VARIABLES
    cdPc,                       \* idle, called, searching, returned, thrown
    storedL2BlockNumbers,       \* storedBlocks.map(s => s.blockNumberL2)
    blockHashes,                \* the blockHashes record of the State contract
    block,                      \* block, with blockHash, leafCount, nCommitments
    lastReliableL2BlockNumber,
    counter,                    \* let counter
    currentLeafCount

calldataVars ==
    << cdPc, storedL2BlockNumbers, blockHashes, block, lastReliableL2BlockNumber,
       counter, currentLeafCount >>

\* the start-up of the proposer application
VARIABLES
    startProposerPc, \* where startProposer(testEnvironment) is: idle, init,
                     \* healthcheck, register, done, thrown
    healthy,         \* what nf3.healthcheck('optimist') resolved to
    startupLog       \* the calls the start-up has made and seen complete, in order

startupVars == << startProposerPc, healthy, startupLog >>

vars == << adminVars, builderVars, mergeVars, nf3Vars, emitterVars, calldataVars,
                    startupVars >>

\* the proposer application has not been started
StartupIdle == startProposerPc = "idle" /\ healthy = "unknown" /\ startupLog = <<>>

\* the methods of Nf3 that open a connection to the optimist
Subscribers ==
    {"startProposer", "getNewBlockEmitter", "startChallenger", "getChallengeEmitter"}

EmittersIdle ==
    /\ wsSent = [m \in Subscribers |-> <<>>]
    /\ wsMessages = <<>>
    /\ wsOut = [m \in Subscribers |-> <<>>]

NoBlock == [blockHash |-> 0, leafCount |-> 0, nCommitments |-> 0, blockNumberL2 |-> 0 - 1]

CalldataIdle ==
    /\ cdPc = "idle"
    /\ storedL2BlockNumbers = <<>>
    /\ blockHashes = <<>>
    /\ block = NoBlock
    /\ lastReliableL2BlockNumber = 0 - 1
    /\ counter = 0 - 1
    /\ currentLeafCount = 0

Calls == 1..NumCalls

NoBuild ==
    [method |-> "none", arg |-> 0, nonce |-> 0, calls |-> <<>>,
     rejected |-> FALSE, recorded |-> {}]

NoTx == [from |-> "none", nonce |-> 0 - 1]

\* the state of a part of the system that takes no step
BuilderIdle == built = NoBuild /\ builtBefore = NoBuild

MergeIdle == mStore = << >> /\ mS1 = <<>> /\ mS2 = <<>> /\ mResult = << >>

Nf3Idle ==
    /\ nf3Nonce = 0
    /\ mutexQueue = <<>>
    /\ mutexHolders = {}
    /\ callPc = [p \in Calls |-> "idle"]
    /\ txOf = [p \in Calls |-> NoTx]
    /\ chainCount = 0
    /\ broadcast = <<>>
    /\ ethereumAddress = "account"
    /\ readFor = [p \in Calls |-> "none"]
    /\ nonceFrom = "none"

AdminIdle ==
    /\ store = << >>
    /\ pc = "idle"
    /\ input = [workflow |-> "none", task |-> "none", nonce |-> 0,
                calls |-> <<>>, signedTx |-> <<>>, known |-> {}]
    /\ approved = <<>>
    /\ idx = 1
    /\ executor = "none"
    /\ inflight = <<>>
    /\ executed = <<>>
    /\ chainNonce = 0
    /\ chainLog = <<>>
    /\ crashes = 0
    /\ nonceLog = <<>>
    /\ runs = 0

\* the tasks of the menu; the last one has no case in start()
Tasks ==
    { "Get token restrictions", "Set token restrictions", "Remove token restrictions",
      "Unpause contracts", "Pause contracts", "Transfer ownership",
      "Set new boot proposer", "Set new boot challenger", "Set new Matic address" }

\* switch (task) of the create workflow: the calls that get signed (none when
\* the case signs nothing)
CreateCalls(task, arg, nonce, confirmed) ==
    CASE task = "Set token restrictions"    -> setTokenRestrictions(arg, nonce)
      [] task = "Remove token restrictions" -> removeTokenRestrictions(arg, nonce)
      [] task = "Unpause contracts" ->
            IF confirmed THEN unpauseContracts(nonce) ELSE <<>>
      [] task = "Pause contracts" ->
            IF confirmed THEN pauseContracts(nonce) ELSE <<>>
      [] task = "Transfer ownership"        -> transferOwnership(arg, nonce)
      [] task = "Set new boot proposer"     -> setBootProposer(arg, nonce)
      [] task = "Set new boot challenger"   -> setBootChallenger(arg, nonce)
      [] OTHER -> <<>>

\* Promise.all over the calls of one action: every call is signed and stored
RECURSIVE SignAll(_, _, _)
SignAll(st, calls, signingKey) ==
    IF calls = <<>> THEN st
    ELSE SignAll(addMultiSigSignature(st, Head(calls), signingKey), Tail(calls), signingKey)

AddTxsLastOnly(st, txs) ==
    IF txs = <<>> THEN st ELSE addSignedTransaction(st, txs[Len(txs)])

\* for (const tx of txs) approvals = await addSignedTransaction(tx)
RECURSIVE AddTxs(_, _)
AddTxs(st, txs) ==
    IF txs = <<>> THEN st
    ELSE AddTxs(addSignedTransaction(st, Head(txs)), Tail(txs))

\* for (const txs of verified) { ...; approved.push(approvals) }: approvals is
\* what the last addSignedTransaction of the group returned, undefined for an
\* empty group
RECURSIVE AddWorkflow(_, _, _)
AddWorkflow(st, verified, acc) ==
    IF verified = <<>> THEN [store |-> st, approved |-> acc]
    ELSE LET txs == Head(verified)
             st1 == AddTxs(st, txs)
             approvals == IF txs = <<>> THEN Undefined
                          ELSE Approvals(getSigned(st1, txs[Len(txs)].call))
         IN  AddWorkflow(st1, Tail(verified), Append(acc, approvals))

ReadyOffByOne(approval) ==
    approval.defined /\ Len(approval.sigs) >= SIGNATURE_THRESHOLD - 1

\* approval?.length === SIGNATURE_THRESHOLD
Ready(approval) ==
    approval.defined /\ Len(approval.sigs) = SIGNATURE_THRESHOLD

SliceLast(approval) ==
    SubSeq(approval.sigs,
           IF Len(approval.sigs) < SIGNATURE_THRESHOLD
           THEN 1 ELSE Len(approval.sigs) - SIGNATURE_THRESHOLD + 1,
           Len(approval.sigs))

\* approval.slice(0, SIGNATURE_THRESHOLD)
Slice(approval) ==
    SubSeq(approval.sigs, 1, IF Len(approval.sigs) < SIGNATURE_THRESHOLD
                             THEN Len(approval.sigs) ELSE SIGNATURE_THRESHOLD)

\* --- what the operator can paste into the add workflow ---------------------

\* the signers whose signatures one serialized group carries
SignerLists ==
    {<<a>> : a \in Signers} \cup
    {<<p[1], p[2]>> : p \in {q \in Signers \X Signers : q[1] # q[2]}}

\* at most one signature of a batch is bad: malformed bytes, or a call that is
\* not the one the bundle holds (other data for the same target and nonce);
\* it sits in the first or the last group, at either place of the group
Faults ==
    {[kind |-> "none", g |-> 0, k |-> 0]} \cup
    [kind : {"malformed", "mismatch"}, g : 1..Len(contractInstancesOwnables), k : 1..2]

Smuggled(call) == [call EXCEPT !.data = encodeABI("smuggled", 0)]

\* JSON.stringify(approved) of another signer's run over calls, with one fault
SignedTx(calls, signers, fault) ==
    [g \in 1..Len(calls) |->
        [k \in 1..Len(signers) |->
            LET tx == Sign(calls[g], signers[k]) IN
            IF fault.g = g /\ fault.k = k
            THEN IF fault.kind = "malformed"
                 THEN [tx EXCEPT !.ok = FALSE]
                 ELSE [tx EXCEPT !.call = Smuggled(calls[g])]
            ELSE tx]]

NoInput ==
    [workflow |-> "none", task |-> "none", nonce |-> 0, calls |-> <<>>,
     signedTx |-> <<>>, known |-> {}]

\* --- the workflows -----------------------------------------------------------

CanStart == pc = "idle" /\ runs < MaxRuns

\* some call of the bundle is recorded locally
KnownBundle(calls) == \E g \in 1..Len(calls) : calls[g] \in DOMAIN store

Begin(in, st, appr, log) ==
    /\ input' = in
    /\ nonceLog' = log
    /\ store' = st
    /\ approved' = appr
    /\ idx' = 1
    /\ executor' = "none"
    /\ inflight' = <<>>
    /\ executed' = <<>>
    /\ pc' = "loop"
    /\ runs' = runs + 1
    /\ UNCHANGED << chainNonce, chainLog, crashes, builderVars, mergeVars, nf3Vars, emitterVars, calldataVars,
                    startupVars >>

\* if (workflow === 'create') switch (task) ...
StartCreate ==
    \E task \in Tasks, signingKey \in LocalSigners, arg \in {1},
       nonce \in BaseNonces, confirmed \in BOOLEAN :
        /\ CanStart
        /\ ~confirmed => task \in {"Pause contracts", "Unpause contracts"}
        /\ LET calls == CreateCalls(task, arg, nonce, confirmed)
               st    == SignAll(store, calls, signingKey)
           IN  Begin([workflow |-> "create", task |-> task, nonce |-> nonce,
                      calls |-> calls, signedTx |-> <<>>, known |-> DOMAIN store],
                     st,
                     [i \in 1..Len(calls) |-> Approvals(getSigned(st, calls[i]))],
                     <<>>)

\* the add workflow on a pasted batch signedTx over calls
RunAdd(method, nonce, calls, signedTx) ==
    LET verified == verifyTransactions(store, signedTx)
        r        == AddWorkflow(store, verified, <<>>)
    IN  Begin([workflow |-> "add", task |-> method, nonce |-> nonce,
               calls |-> calls, signedTx |-> signedTx, known |-> DOMAIN store],
              r.store, r.approved, <<>>)

\* if (workflow === 'add') ...
StartAdd ==
    \E method \in Methods, arg \in {1}, nonce \in BaseNonces,
       signers \in SignerLists, fault \in Faults :
        /\ CanStart
        /\ LET calls == BuildBundle(method, arg, nonce) IN
           \* a bundle this process has signed, or one it cannot have signed
           /\ KnownBundle(calls) \/ method = "setMaticAddress"
           /\ fault.kind # "none" =>
                fault.g \in {1, Len(calls)} /\ fault.k <= Len(signers)
           /\ RunAdd(method, nonce, calls, SignedTx(calls, signers, fault))

\* the operator left the nonce question empty
NotSupplied == 0 - 1

\* the get nonce workflow: nonce is a const of the destructuring of line 28,
\* so `nonce = await ...nonce().call()` reads the contract (when it can be
\* reached) and then throws a TypeError, which the catch logs as an error
GetNonceLog(typed, reachable) ==
    IF typed = NotSupplied \/ typed = 0
    THEN << [level |-> "error",
             message |-> "Could not get nonce. Are you connected to the blockchain?"] >>
    ELSE << [level |-> "info", message |-> "get nonce", nonce |-> typed] >>

\* if (workflow === 'get nonce') ...
StartGetNonce ==
    \E typed \in {NotSupplied} \cup BaseNonces, reachable \in BOOLEAN :
        /\ CanStart
        /\ Begin([workflow |-> "get nonce", task |-> "none", nonce |-> typed,
                  calls |-> <<>>, signedTx |-> <<>>, known |-> DOMAIN store,
                  reachable |-> reachable],
                 store, <<>>, GetNonceLog(typed, reachable))

\* --- the execution loop ------------------------------------------------------

InLoopButLast == pc = "loop" /\ idx < Len(approved)

\* for (const approval of approved)
InLoop == pc = "loop" /\ idx <= Len(approved)

FireAndForget == FALSE

\* await executeMultiSigTransaction(...): the loop waits for the promise
AwaitExecution == TRUE

\* the approval is ready: ask for the executor once, submit, await
ExecuteNext ==
    /\ InLoop
    /\ Ready(approved[idx])
    /\ executor' = "executor"
    /\ inflight' = Append(inflight,
                          [index |-> idx,
                           call |-> approved[idx].sigs[1].call,
                           signatures |-> Slice(approved[idx])])
    /\ IF AwaitExecution
       THEN pc' = "await" /\ idx' = idx
       ELSE pc' = "loop" /\ idx' = idx + 1
    /\ UNCHANGED << store, input, approved, executed, chainNonce, chainLog, crashes,
                    nonceLog, runs >>
    /\ UNCHANGED << builderVars, mergeVars, nf3Vars, emitterVars, calldataVars,
                    startupVars >>

\* the approval is not ready: the loop moves on
SkipNext ==
    /\ InLoop
    /\ ~Ready(approved[idx])
    /\ idx' = idx + 1
    /\ UNCHANGED << store, pc, input, approved, executor, inflight, executed,
                    chainNonce, chainLog, crashes, nonceLog, runs >>
    /\ UNCHANGED << builderVars, mergeVars, nf3Vars, emitterVars, calldataVars,
                    startupVars >>

\* the network accepted the transaction: executeMultiSigTransaction resolves
Accepted ==
    /\ inflight # <<>>
    /\ ChainAccepts(chainNonce, inflight[1].call, inflight[1].signatures)
    /\ chainNonce' = chainNonce + 1
    /\ chainLog' = Append(chainLog, inflight[1].call)
    /\ executed' = Append(executed,
                          [index |-> inflight[1].index, call |-> inflight[1].call,
                           signatures |-> inflight[1].signatures,
                           outcome |-> "accepted"])
    /\ inflight' = Tail(inflight)
    /\ IF pc = "await"
       THEN pc' = "loop" /\ idx' = idx + 1
       ELSE pc' = pc /\ idx' = idx
    /\ UNCHANGED << store, input, approved, executor, crashes, nonceLog, runs >>
    /\ UNCHANGED << builderVars, mergeVars, nf3Vars, emitterVars, calldataVars,
                    startupVars >>

OnRejectionRetry == "loop"

\* a rejected promise of executeMultiSigTransaction is not caught in start():
\* the loop is left and start() rejects with it
OnRejection == "failed"

\* the contract reverted: ExecutionRejected propagates out of start()
Rejected ==
    /\ inflight # <<>>
    /\ ~ChainAccepts(chainNonce, inflight[1].call, inflight[1].signatures)
    /\ executed' = Append(executed,
                          [index |-> inflight[1].index, call |-> inflight[1].call,
                           signatures |-> inflight[1].signatures,
                           outcome |-> "rejected"])
    /\ inflight' = Tail(inflight)
    /\ pc' = OnRejection
    /\ UNCHANGED << store, input, approved, idx, executor, chainNonce, chainLog,
                    crashes, nonceLog, runs >>
    /\ UNCHANGED << builderVars, mergeVars, nf3Vars, emitterVars, calldataVars,
                    startupVars >>

\* the loop is over: close the connection, return JSON.stringify(approved)
Return ==
    /\ pc = "loop"
    /\ idx > Len(approved)
    /\ pc' = "done"
    /\ UNCHANGED << store, input, approved, idx, executor, inflight, executed,
                    chainNonce, chainLog, crashes, nonceLog, runs >>
    /\ UNCHANGED << builderVars, mergeVars, nf3Vars, emitterVars, calldataVars,
                    startupVars >>

\* the process ends; the next invocation of start() is a new process that
\* shares only the local store and the chain with this one
Exit ==
    /\ pc \in {"done", "failed"}
    /\ pc' = "idle"
    /\ input' = NoInput
    /\ approved' = <<>>
    /\ idx' = 1
    /\ executor' = "none"
    /\ inflight' = <<>>
    /\ executed' = <<>>
    /\ nonceLog' = <<>>
    /\ UNCHANGED << store, chainNonce, chainLog, crashes, runs >>
    /\ UNCHANGED << builderVars, mergeVars, nf3Vars, emitterVars, calldataVars,
                    startupVars >>

Init ==
    /\ AdminIdle /\ BuilderIdle /\ MergeIdle /\ Nf3Idle
    /\ EmittersIdle /\ CalldataIdle /\ StartupIdle

Next ==
    \/ StartCreate
    \/ StartAdd
    \/ StartGetNonce
    \/ ExecuteNext
    \/ SkipNext
    \/ Accepted
    \/ Rejected
    \/ Return
    \/ Exit

\* the administrator: any sequence of runs of start()
Spec == Init /\ [][Next]_vars

\* ------------------------------------------------------------------------
\* Properties of the administrator
\* ------------------------------------------------------------------------

\* the addresses a list of signatures recovers to
DistinctAddresses(sigs) == {sigs[i].by : i \in 1..Len(sigs)}

HasQuorum(approval) ==
    approval.defined /\ Cardinality(DistinctAddresses(approval.sigs)) >= SIGNATURE_THRESHOLD

\* everything this run handed to executeMultiSigTransaction, in order
Submitted == executed \o inflight

\* the signatures the pasted batch carries
BatchEntries ==
    UNION { {input.signedTx[g][k] : k \in 1..Len(input.signedTx[g])} :
            g \in 1..Len(input.signedTx) }

\* a signature of the batch that Merge must keep: it recovers an address and
\* covers a call the store knew when the run started
ValidEntry(e) == e.ok /\ e.call \in input.known

\* C1: whatever runs of start() came before, every execution handed to
\* executeMultiSigTransaction carries signatures of at least
\* SIGNATURE_THRESHOLD distinct recovered addresses, and no approval with
\* fewer distinct addresses is reported ready.
C1_ExecutedOnlyWithQuorum ==
    /\ \A i \in 1..Len(Submitted) :
          Cardinality(DistinctAddresses(Submitted[i].signatures)) >= SIGNATURE_THRESHOLD
    /\ \A i \in 1..Len(approved) : Ready(approved[i]) => HasQuorum(approved[i])

\* a call was executed and accepted by the contract
C1_Witness ==
    /\ Len(executed) > 0
    /\ executed[1].outcome = "accepted"

\* C2 (as claimed): every approval whose signatures recover to
\* SIGNATURE_THRESHOLD or more distinct addresses is reported ready, and
\* start() has executed it by the time it returns.
C2_QuorumIsReadyAndExecuted ==
    /\ \A i \in 1..Len(approved) : HasQuorum(approved[i]) => Ready(approved[i])
    /\ pc = "done" =>
          \A i \in 1..Len(approved) :
              HasQuorum(approved[i]) => \E j \in 1..Len(executed) : executed[j].index = i

\* the create workflow was asked for an action that the switch of start() has
\* no case for
Unsupported ==
    /\ input.workflow = "create"
    /\ input.task \notin { "Get token restrictions", "Set token restrictions",
                           "Remove token restrictions", "Unpause contracts",
                           "Pause contracts", "Transfer ownership",
                           "Set new boot proposer", "Set new boot challenger" }

\* C22 (as claimed): a create request whose action has no encoding rule fails:
\* no call is built, signed or executed for it, and start() ends with an
\* error instead of returning normally.
C22_UnsupportedActionFails ==
    Unsupported =>
        /\ input.calls = <<>>
        /\ approved = <<>>
        /\ store = [c \in input.known |-> store[c]]
        /\ executed = <<>> /\ inflight = <<>>
        /\ pc # "done"

\* C6: in a run of the add workflow, a signature of the batch whose call
\* (target, data, nonce) the store did not know when the run started is in no
\* signature set afterwards: its call is not recorded and no approval of the
\* run holds it.
C6_MismatchedNeverStored ==
    input.workflow = "add" =>
        \A e \in BatchEntries :
            e.call \notin input.known =>
                /\ e.call \notin DOMAIN store
                /\ \A i \in 1..Len(approved) :
                      \A k \in 1..Len(approved[i].sigs) : approved[i].sigs[k].call # e.call

\* a batch with a smuggled call was merged, and its sound signatures for a
\* known call went in
C6_Witness ==
    /\ input.workflow = "add"
    /\ \E e \in BatchEntries : e.ok /\ e.call \notin input.known
    /\ \E e \in BatchEntries :
          ValidEntry(e) /\ e.by \in DistinctAddresses(getSigned(store, e.call))

C8_CountIsDistinctAddresses ==
    /\ \A c \in DOMAIN store :
          Len(store[c]) = Cardinality(DistinctAddresses(store[c]))
    /\ \A i \in 1..Len(approved) :
          Len(approved[i].sigs) = Cardinality(DistinctAddresses(approved[i].sigs))

\* the batch brought a signature of the key-holder who created the call, whose
\* signature the store already held, and the call still has one signature
C8_Witness ==
    /\ input.workflow = "add"
    /\ \E e \in BatchEntries :
          /\ ValidEntry(e)
          /\ e.by \in LocalSigners
          /\ Len(store[e.call]) = 1
          /\ store[e.call][1].by = e.by

C10_ExecutesOnlyFullyReadyBundle ==
    Submitted # <<>> => \A j \in 1..Len(approved) : HasQuorum(approved[j])

\* C12: in one run no call is handed to executeMultiSigTransaction twice; a
\* rejected execution is the last one of the run, nothing is submitted after
\* it, and start() has failed with it.
C12_SubmittedOnceNoRetry ==
    /\ \A i, j \in 1..Len(Submitted) :
          i # j => /\ Submitted[i].index # Submitted[j].index
                   /\ Submitted[i].call # Submitted[j].call
    /\ \A i \in 1..Len(executed) :
          executed[i].outcome = "rejected" =>
              /\ i = Len(executed)
              /\ inflight = <<>>
              /\ pc = "failed"

\* the first call of a bundle was rejected while the next one was ready: the
\* run failed and the next one was not submitted
C12_Witness ==
    /\ pc = "failed"
    /\ Len(executed) = 1
    /\ executed[1].outcome = "rejected"
    /\ executed[1].index = 1
    /\ Len(approved) >= 2
    /\ Ready(approved[2])

\* C13 (as claimed): when a run is over, also one in which a call was
\* rejected, every ready call of the bundle has an outcome, accepted or
\* rejected.
C13_OutcomeForEveryCall ==
    pc \in {"done", "failed"} =>
        \A i \in 1..Len(approved) :
            Ready(approved[i]) => \E j \in 1..Len(executed) : executed[j].index = i

\* the first SIGNATURE_THRESHOLD signatures held for a call, in insertion order
FirstSignatures(st, call) ==
    SubSeq(getSigned(st, call), 1, SIGNATURE_THRESHOLD)

C19_GetNonceReportsChainNonce ==
    (input.workflow = "get nonce" /\ input.nonce = NotSupplied /\ input.reachable) =>
        nonceLog = << [level |-> "info", message |-> "get nonce", nonce |-> chainNonce] >>

\* C20: no step removes a call from the store or an address from the
\* signatures held for a call, and the store changes only where a run of the
\* create or the add workflow stores signatures (addSignedTransaction), never
\* in the execution loop, the get nonce workflow or at the end of a run.
C20_SignatureSetOnlyGrows ==
    [][/\ \A c \in DOMAIN store :
             /\ c \in DOMAIN store'
             /\ DistinctAddresses(store[c]) \subseteq DistinctAddresses(store'[c])
       /\ store' # store =>
             /\ pc = "idle"
             /\ input'.workflow \in {"create", "add"}]_vars

\* a run of the add workflow brought a call this process had signed to
\* three addresses
C20_Witness ==
    /\ input.workflow = "add"
    /\ \E c \in input.known :
          /\ Cardinality(DistinctAddresses(getSigned(store, c))) = 3
          /\ \E k \in LocalSigners : k \in DistinctAddresses(getSigned(store, c))


\* ------------------------------------------------------------------------
\* The Executor over bundles created earlier: competing bundles, a crash in
\* the execution loop, and the run after it
\* ------------------------------------------------------------------------

\* two actions whose bundles the local key-holder has created from the same
\* base nonce
RecoveryMethods == {"transferOwnership", "setTokenRestrictions"}

\* a call some operator executed before the behaviour starts
EarlierCall(nonce) == MultiSigCall("shield", encodeABI("earlier", 0), nonce)

NoFault == [kind |-> "none", g |-> 0, k |-> 0]

\* the store after the create workflow ran for both actions with base nonce
\* n, on a chain whose contract has executed some calls already
RecoveryInit ==
    /\ BuilderIdle /\ MergeIdle /\ Nf3Idle /\ EmittersIdle /\ CalldataIdle
    /\ StartupIdle
    /\ \E n \in BaseNonces, key \in LocalSigners :
          store = SignAll(SignAll(<< >>, BuildBundle("transferOwnership", 1, n), key),
                          BuildBundle("setTokenRestrictions", 1, n), key)
    /\ chainNonce \in BaseNonces
    /\ chainLog = [k \in 1..chainNonce |-> EarlierCall(k - 1)]
    /\ pc = "idle"
    /\ input = NoInput
    /\ approved = <<>>
    /\ idx = 1
    /\ executor = "none"
    /\ inflight = <<>>
    /\ executed = <<>>
    /\ crashes = 0
    /\ nonceLog = <<>>
    /\ runs = 0

\* the add workflow on another key-holder's signatures for a created bundle,
\* or for the calls of it from position from on
AddSuffix ==
    \E method \in RecoveryMethods, nonce \in BaseNonces,
       from \in 1..Len(contractInstancesOwnables), signer \in Signers :
        /\ CanStart
        /\ LET bundle == BuildBundle(method, 1, nonce) IN
           /\ from <= Len(bundle)
           /\ KnownBundle(bundle)
           /\ LET calls == SubSeq(bundle, from, Len(bundle)) IN
              RunAdd(method, nonce, calls, SignedTx(calls, << signer >>, NoFault))

\* the process dies in the execution loop. A transaction it had handed to
\* the network is either lost or still executed by the contract
Crash ==
    /\ pc \in {"loop", "await"}
    /\ crashes < MaxCrashes
    /\ crashes' = crashes + 1
    /\ \/ UNCHANGED << chainNonce, chainLog >>
       \/ /\ inflight # <<>>
          /\ ChainAccepts(chainNonce, inflight[1].call, inflight[1].signatures)
          /\ chainNonce' = chainNonce + 1
          /\ chainLog' = Append(chainLog, inflight[1].call)
    /\ pc' = "idle"
    /\ input' = NoInput
    /\ approved' = <<>>
    /\ idx' = 1
    /\ executor' = "none"
    /\ inflight' = <<>>
    /\ executed' = <<>>
    /\ nonceLog' = <<>>
    /\ UNCHANGED << store, runs >>
    /\ UNCHANGED << builderVars, mergeVars, nf3Vars, emitterVars, calldataVars,
                    startupVars >>

RecoveryNext ==
    \/ AddSuffix
    \/ ExecuteNext
    \/ SkipNext
    \/ Accepted
    \/ Rejected
    \/ Return
    \/ Exit
    \/ Crash

\* runs of the add workflow over the created bundles, with crashes
SpecRecovery == RecoveryInit /\ [][RecoveryNext]_vars

\* the same, where a running start() goes on and the network answers
SpecRecoveryFair ==
    /\ SpecRecovery
    /\ WF_vars(ExecuteNext)
    /\ WF_vars(SkipNext)
    /\ WF_vars(Accepted)
    /\ WF_vars(Rejected)
    /\ WF_vars(Return)

\* C11: the contract executes at most one call per nonce (its log holds the
\* nonces 0, 1, 2, ... once each), and a call submitted with a nonce that
\* another call has consumed is rejected.
C11_OneCallPerNonce ==
    /\ Len(chainLog) = chainNonce
    /\ \A k \in 1..Len(chainLog) : chainLog[k].nonce = k - 1
    /\ \A i \in 1..Len(executed) :
          \A k \in 1..Len(chainLog) :
              (chainLog[k].nonce = executed[i].call.nonce /\ chainLog[k] # executed[i].call)
                  => executed[i].outcome = "rejected"

\* of the two bundles created with the same base nonce one was executed, and
\* the first call of the other, with its quorum of signatures, was rejected
C11_Witness ==
    \E i \in 1..Len(executed) :
        \E k \in 1..Len(chainLog) :
            /\ executed[i].outcome = "rejected"
            /\ Cardinality(DistinctAddresses(executed[i].signatures)) >= SIGNATURE_THRESHOLD
            /\ chainLog[k].nonce = executed[i].call.nonce
            /\ chainLog[k] # executed[i].call
            /\ chainLog[k] \in DOMAIN store
            /\ executed[i].call \in DOMAIN store

\* the bundle the running add workflow belongs to
RunBundle == BuildBundle(input.task, 1, input.nonce)

\* the calls of that bundle before the ones this run was given
RunPrefix == SelectSeq(RunBundle, LAMBDA c : c.nonce < input.calls[1].nonce)

InChainLog(call) == \E k \in 1..Len(chainLog) : chainLog[k] = call

\* after a crash, start() begins its execution loop over the unexecuted
\* suffix of a bundle: the calls before it are executed, the contract
\* expects the first of the suffix, and every call of it holds
\* SIGNATURE_THRESHOLD signatures
RerunOnSuffix ==
    /\ crashes > 0
    /\ pc = "loop" /\ idx = 1
    /\ input.workflow = "add"
    /\ RunPrefix # <<>>
    /\ \A g \in 1..Len(RunPrefix) : InChainLog(RunPrefix[g])
    /\ input.calls[1].nonce = chainNonce
    /\ \A i \in 1..Len(approved) :
          approved[i].defined /\ Len(approved[i].sigs) = SIGNATURE_THRESHOLD

\* the run has executed every call it was given, in their order
SuffixExecuted ==
    /\ pc = "done"
    /\ Len(executed) = Len(input.calls)
    /\ \A i \in 1..Len(executed) :
          /\ executed[i].call = input.calls[i]
          /\ executed[i].outcome = "accepted"

PromiseAll(calls, failAt) ==
    [rejected |-> failAt # 0,
     recorded |-> {calls[i] : i \in (1..Len(calls)) \ {failAt}}]

\* the orders in which n promises can settle
SettleOrders(n) ==
    {f \in [1..n -> 1..n] : \A i, j \in 1..n : i # j => f[i] # f[j]}

\* the promises that settle: all of them in any order, or, when one rejects,
\* the order is of no interest
SettleOrdersOf(calls, failAt) ==
    IF failAt = 0 THEN SettleOrders(Len(calls))
    ELSE {[i \in 1..Len(calls) |-> i]}

PromiseAllInSettleOrder(calls, order) == [i \in 1..Len(calls) |-> calls[order[i]]]

\* Promise.all resolves to the values of its promises in the order it was
\* given them, whatever the order they settle in
PromiseAllValues(calls, order) == calls

\* one method of ContractMultiSig ran: calls are what it handed to
\* multiSig.addMultiSigSignature, in the order of Promise.all's result
Built(method, arg, baseNonce, calls, failAt, order) ==
    [method |-> method, arg |-> arg, nonce |-> baseNonce,
     calls |-> PromiseAllValues(calls, order),
     rejected |-> PromiseAll(calls, failAt).rejected,
     recorded |-> PromiseAll(calls, failAt).recorded]

TransferOwnership ==
    \E newOwner \in Args, n \in BaseNonces :
        \E failAt \in 0..Len(transferOwnership(newOwner, n)) :
          \E order \in SettleOrdersOf(transferOwnership(newOwner, n), failAt) :
            /\ built' = Built("transferOwnership", newOwner, n, transferOwnership(newOwner, n),
                             failAt, order)
            /\ builtBefore' = built
            /\ UNCHANGED << adminVars, mergeVars, nf3Vars, emitterVars, calldataVars,
                    startupVars >>

SetTokenRestrictions ==
    \E token \in Args, n \in BaseNonces :
        \E failAt \in 0..Len(setTokenRestrictions(token, n)) :
          \E order \in SettleOrdersOf(setTokenRestrictions(token, n), failAt) :
            /\ built' = Built("setTokenRestrictions", token, n, setTokenRestrictions(token, n),
                             failAt, order)
            /\ builtBefore' = built
            /\ UNCHANGED << adminVars, mergeVars, nf3Vars, emitterVars, calldataVars,
                    startupVars >>

RemoveTokenRestrictions ==
    \E token \in Args, n \in BaseNonces :
        \E failAt \in 0..Len(removeTokenRestrictions(token, n)) :
          \E order \in SettleOrdersOf(removeTokenRestrictions(token, n), failAt) :
            /\ built' = Built("removeTokenRestrictions", token, n, removeTokenRestrictions(token, n),
                             failAt, order)
            /\ builtBefore' = built
            /\ UNCHANGED << adminVars, mergeVars, nf3Vars, emitterVars, calldataVars,
                    startupVars >>

PauseContracts ==
    \E n \in BaseNonces :
        \E failAt \in 0..Len(pauseContracts(n)) :
          \E order \in SettleOrdersOf(pauseContracts(n), failAt) :
            /\ built' = Built("pauseContracts", 0, n, pauseContracts(n),
                             failAt, order)
            /\ builtBefore' = built
            /\ UNCHANGED << adminVars, mergeVars, nf3Vars, emitterVars, calldataVars,
                    startupVars >>

UnpauseContracts ==
    \E n \in BaseNonces :
        \E failAt \in 0..Len(unpauseContracts(n)) :
          \E order \in SettleOrdersOf(unpauseContracts(n), failAt) :
            /\ built' = Built("unpauseContracts", 0, n, unpauseContracts(n),
                             failAt, order)
            /\ builtBefore' = built
            /\ UNCHANGED << adminVars, mergeVars, nf3Vars, emitterVars, calldataVars,
                    startupVars >>

SetBootProposer ==
    \E newProposer \in Args, n \in BaseNonces :
        \E failAt \in 0..Len(setBootProposer(newProposer, n)) :
          \E order \in SettleOrdersOf(setBootProposer(newProposer, n), failAt) :
            /\ built' = Built("setBootProposer", newProposer, n, setBootProposer(newProposer, n),
                             failAt, order)
            /\ builtBefore' = built
            /\ UNCHANGED << adminVars, mergeVars, nf3Vars, emitterVars, calldataVars,
                    startupVars >>

SetBootChallenger ==
    \E newChallenger \in Args, n \in BaseNonces :
        \E failAt \in 0..Len(setBootChallenger(newChallenger, n)) :
          \E order \in SettleOrdersOf(setBootChallenger(newChallenger, n), failAt) :
            /\ built' = Built("setBootChallenger", newChallenger, n, setBootChallenger(newChallenger, n),
                             failAt, order)
            /\ builtBefore' = built
            /\ UNCHANGED << adminVars, mergeVars, nf3Vars, emitterVars, calldataVars,
                    startupVars >>

SetMaticAddress ==
    \E newMaticAddress \in Args, n \in BaseNonces :
        \E failAt \in 0..Len(setMaticAddress(newMaticAddress, n)) :
          \E order \in SettleOrdersOf(setMaticAddress(newMaticAddress, n), failAt) :
            /\ built' = Built("setMaticAddress", newMaticAddress, n, setMaticAddress(newMaticAddress, n),
                             failAt, order)
            /\ builtBefore' = built
            /\ UNCHANGED << adminVars, mergeVars, nf3Vars, emitterVars, calldataVars,
                    startupVars >>

BuilderNext ==
    \/ TransferOwnership
    \/ SetTokenRestrictions
    \/ RemoveTokenRestrictions
    \/ PauseContracts
    \/ UnpauseContracts
    \/ SetBootProposer
    \/ SetBootChallenger
    \/ SetMaticAddress

\* the builder: any sequence of uses of ContractMultiSig
SpecBuilder == Init /\ [][BuilderNext]_vars

\* the built calls reach exactly these targets, in this order, with the
\* nonces baseNonce, baseNonce + 1, ...
ReachesInOrder(calls, targets, baseNonce) ==
    /\ Len(calls) = Len(targets)
    /\ \A i \in 1..Len(targets) :
          /\ calls[i].to = targets[i]
          /\ calls[i].nonce = baseNonce + (i - 1)

\* C4: transferOwnership builds four calls, on shield, state, proposers and
\* challenges, with the nonces n .. n+3; pauseContracts and unpauseContracts
\* build two, on shield and state, with n and n+1; every other method builds
\* one call, on shield, with nonce n.
C4_OneCallPerTargetInOrder ==
    /\ built.method = "transferOwnership" =>
          ReachesInOrder(built.calls, <<"shield", "state", "proposers", "challenges">>,
                         built.nonce)
    /\ built.method \in {"pauseContracts", "unpauseContracts"} =>
          ReachesInOrder(built.calls, <<"shield", "state">>, built.nonce)
    /\ built.method \in {"setTokenRestrictions", "removeTokenRestrictions",
                         "setBootProposer", "setBootChallenger", "setMaticAddress"} =>
          ReachesInOrder(built.calls, <<"shield">>, built.nonce)

\* ownership was transferred from a base nonce other than 0, after a pause
C4_Witness ==
    /\ built.method = "transferOwnership"
    /\ built.nonce > 0
    /\ builtBefore.method = "pauseContracts"

C17_BundleBuiltAtomically ==
    built.rejected => built.recorded = {}

\* ------------------------------------------------------------------------
\* Merge as a function of the store and the batch
\* ------------------------------------------------------------------------

\* the add workflow on a store: verify the batch, add what is left
Merge(st, signedTx) == AddWorkflow(st, verifyTransactions(st, signedTx), <<>>).store

\* a SignatureSet: for every call the set of its PartialSignatures, which is
\* keyed by the recovered address
SignatureSet(st) == [c \in DOMAIN st |-> {st[c][i] : i \in 1..Len(st[c])}]

\* batches over the pause bundles: any signer list, sound or with its first
\* signature malformed or mismatched
MergeBatches ==
    { SignedTx(pauseContracts(n), signers, fault) :
        n \in BaseNonces, signers \in SignerLists,
        fault \in {f \in Faults : f.g <= 1 /\ f.k <= 1} }

NoResult ==
    [done12 |-> FALSE, done21 |-> FALSE, once |-> << >>, twice |-> << >>,
     s1s2 |-> << >>, s2s1 |-> << >>]

MergeInit ==
    /\ AdminIdle /\ BuilderIdle /\ Nf3Idle /\ EmittersIdle /\ CalldataIdle
    /\ StartupIdle
    /\ \E key \in LocalSigners : mStore = SignAll(<< >>, pauseContracts(0), key)
    /\ mS1 \in MergeBatches
    /\ mS2 \in MergeBatches
    /\ mResult = NoResult

\* S1 is merged, then S1 again, and S2 after S1
MergeS1ThenS2 ==
    /\ ~mResult.done12
    /\ LET once == Merge(mStore, mS1) IN
       mResult' = [mResult EXCEPT !.done12 = TRUE,
                                  !.once = once,
                                  !.twice = Merge(once, mS1),
                                  !.s1s2 = Merge(once, mS2)]
    /\ UNCHANGED << mStore, mS1, mS2, adminVars, builderVars, nf3Vars, emitterVars, calldataVars,
                    startupVars >>

\* S2 is merged, then S1
MergeS2ThenS1 ==
    /\ ~mResult.done21
    /\ mResult' = [mResult EXCEPT !.done21 = TRUE,
                                  !.s2s1 = Merge(Merge(mStore, mS2), mS1)]
    /\ UNCHANGED << mStore, mS1, mS2, adminVars, builderVars, nf3Vars, emitterVars, calldataVars,
                    startupVars >>

MergeNext == MergeS1ThenS2 \/ MergeS2ThenS1

\* Merge applied to every pair of batches
SpecMerge == MergeInit /\ [][MergeNext]_vars

getTransactionCount(address) == IF address = "account" THEN chainCount ELSE 0

CanEnterUnlocked(p) == callPc[p] = "queued"

NoNonceCachedAlways == TRUE

\* if (!this.nonce)
NoNonceCached == nf3Nonce = 0

\* this.nonceMutex.runExclusive: a waiting call enters when the mutex is free
\* and it is the first in line
CanEnter(p) ==
    /\ callPc[p] = "queued"
    /\ mutexHolders = {}
    /\ mutexQueue # <<>>
    /\ Head(mutexQueue) = p

\* the call leaves the line
Dequeue(p) == SelectSeq(mutexQueue, LAMBDA q : q # p)

\* tx = { from: this.ethereumAddress, ..., nonce: this.nonce }; this.nonce++
\* and the callback returns, which releases the mutex
BuildEnvelope(p) ==
    /\ txOf' = [txOf EXCEPT ![p] = [from |-> ethereumAddress, nonce |-> nf3Nonce]]
    /\ nf3Nonce' = nf3Nonce + 1
    /\ mutexHolders' = mutexHolders \ {p}
    /\ callPc' = [callPc EXCEPT ![p] = "built"]

\* submitTransaction is called: it asks for the mutex
Submit(p) ==
    /\ callPc[p] = "idle"
    /\ callPc' = [callPc EXCEPT ![p] = "queued"]
    /\ mutexQueue' = Append(mutexQueue, p)
    /\ UNCHANGED << nf3Nonce, mutexHolders, txOf, chainCount, broadcast >>
    /\ UNCHANGED << ethereumAddress, readFor, nonceFrom >>
    /\ UNCHANGED << adminVars, builderVars, mergeVars, emitterVars, calldataVars,
                    startupVars >>

\* the callback starts with no nonce cached (!this.nonce): it awaits
\* web3.eth.getTransactionCount
EnterAndRead(p) ==
    /\ CanEnter(p)
    /\ NoNonceCached
    /\ mutexQueue' = Dequeue(p)
    /\ mutexHolders' = mutexHolders \cup {p}
    /\ callPc' = [callPc EXCEPT ![p] = "reading"]
    /\ readFor' = [readFor EXCEPT ![p] = ethereumAddress]
    /\ UNCHANGED << nf3Nonce, txOf, chainCount, broadcast, ethereumAddress, nonceFrom >>
    /\ UNCHANGED << adminVars, builderVars, mergeVars, emitterVars, calldataVars,
                    startupVars >>

\* the callback starts with a nonce cached: it runs to its end without a pause
EnterAndBuild(p) ==
    /\ CanEnter(p)
    /\ ~NoNonceCached
    /\ mutexQueue' = Dequeue(p)
    /\ BuildEnvelope(p)
    /\ UNCHANGED << chainCount, broadcast, ethereumAddress, readFor, nonceFrom >>
    /\ UNCHANGED << adminVars, builderVars, mergeVars, emitterVars, calldataVars,
                    startupVars >>

\* this.nonce = await getTransactionCount(...): the count arrives and is
\* stored; the console.log that follows awaits a second count
ReadDone(p) ==
    /\ callPc[p] = "reading"
    /\ nf3Nonce' = getTransactionCount(readFor[p])
    /\ nonceFrom' = readFor[p]
    /\ readFor' = [readFor EXCEPT ![p] = "none"]
    /\ callPc' = [callPc EXCEPT ![p] = "logging"]
    /\ UNCHANGED << mutexQueue, mutexHolders, txOf, chainCount, broadcast, ethereumAddress >>
    /\ UNCHANGED << adminVars, builderVars, mergeVars, emitterVars, calldataVars,
                    startupVars >>

\* the second count arrives: the envelope is built
LogDone(p) ==
    /\ callPc[p] = "logging"
    /\ BuildEnvelope(p)
    /\ UNCHANGED << mutexQueue, chainCount, broadcast, ethereumAddress, readFor, nonceFrom >>
    /\ UNCHANGED << adminVars, builderVars, mergeVars, emitterVars, calldataVars,
                    startupVars >>

\* getTransactionCount rejects: the callback throws, runExclusive releases
\* the mutex and submitTransaction rejects
ReadFails(p) ==
    /\ callPc[p] \in {"reading", "logging"}
    /\ mutexHolders' = mutexHolders \ {p}
    /\ callPc' = [callPc EXCEPT ![p] = "failed"]
    /\ readFor' = [readFor EXCEPT ![p] = "none"]
    /\ UNCHANGED << nf3Nonce, mutexQueue, txOf, chainCount, broadcast,
                    ethereumAddress, nonceFrom >>
    /\ UNCHANGED << adminVars, builderVars, mergeVars, emitterVars, calldataVars,
                    startupVars >>

\* the envelope is signed and handed to the network
Send(p) ==
    /\ callPc[p] = "built"
    /\ broadcast' = Append(broadcast, txOf[p].nonce)
    /\ callPc' = [callPc EXCEPT ![p] = "sent"]
    /\ UNCHANGED << nf3Nonce, mutexQueue, mutexHolders, txOf, chainCount,
                    ethereumAddress, readFor, nonceFrom >>
    /\ UNCHANGED << adminVars, builderVars, mergeVars, emitterVars, calldataVars,
                    startupVars >>

\* signTransaction or sendSignedTransaction rejects: submitTransaction rejects
\* with the nonce of its envelope already counted
SendFails(p) ==
    /\ callPc[p] = "built"
    /\ callPc' = [callPc EXCEPT ![p] = "sendFailed"]
    /\ UNCHANGED << nf3Nonce, mutexQueue, mutexHolders, txOf, chainCount, broadcast,
                    ethereumAddress, readFor, nonceFrom >>
    /\ UNCHANGED << adminVars, builderVars, mergeVars, emitterVars, calldataVars,
                    startupVars >>

\* setEthereumSigningKey(key), with the key of another account, between two
\* steps of the calls in flight
SetEthereumSigningKey ==
    /\ ethereumAddress = "account"
    /\ ethereumAddress' = "newAccount"
    /\ nf3Nonce' = 0
    /\ nonceFrom' = "none"
    /\ UNCHANGED << mutexQueue, mutexHolders, callPc, txOf, chainCount, broadcast, readFor >>
    /\ UNCHANGED << adminVars, builderVars, mergeVars, emitterVars, calldataVars,
                    startupVars >>

Nf3Init ==
    /\ AdminIdle /\ BuilderIdle /\ MergeIdle /\ EmittersIdle /\ CalldataIdle
    /\ StartupIdle
    /\ nf3Nonce = 0
    /\ mutexQueue = <<>>
    /\ mutexHolders = {}
    /\ callPc = [p \in Calls |-> "idle"]
    /\ txOf = [p \in Calls |-> NoTx]
    /\ chainCount \in 0..MaxChainCount
    /\ broadcast = <<>>
    /\ ethereumAddress = "account"
    /\ readFor = [p \in Calls |-> "none"]
    /\ nonceFrom = "none"

Nf3Next ==
    \E p \in Calls :
        \/ Submit(p)
        \/ EnterAndRead(p)
        \/ EnterAndBuild(p)
        \/ ReadDone(p)
        \/ LogDone(p)
        \/ ReadFails(p)
        \/ Send(p)
        \/ SendFails(p)

\* concurrent calls of submitTransaction on one instance, one signing key
SpecNf3 == Nf3Init /\ [][Nf3Next]_vars

Nf3KeysNext == Nf3Next \/ SetEthereumSigningKey

\* the same, with the signing key replaced at some moment
SpecNf3Keys == Nf3Init /\ [][Nf3KeysNext]_vars

\* the call is inside the runExclusive callback
InCriticalSection(p) == callPc[p] \in {"reading", "logging"}

HasEnvelope(p) == txOf[p] # NoTx

\* C3: at any time at most one call of submitTransaction is inside the nonce
\* critical section, and no two calls have built envelopes with the same
\* nonce.
C3_ExclusiveReservation ==
    /\ Cardinality({p \in Calls : InCriticalSection(p)}) <= 1
    /\ \A p, q \in Calls :
          p # q /\ HasEnvelope(p) /\ HasEnvelope(q) => txOf[p].nonce # txOf[q].nonce

\* two calls hold an envelope that is not yet sent while a third one waits
\* for the mutex
C3_Witness ==
    \E p, q, r \in Calls :
        /\ p # q
        /\ callPc[p] = "built" /\ callPc[q] = "built"
        /\ callPc[r] = "queued"

\* the calls whose envelope is built
Envelopes == {p \in Calls : HasEnvelope(p)}

C16_FailedReadLeavesNoTrace ==
    [][\A p \in Calls :
          (InCriticalSection(p) /\ ~InCriticalSection(p)' /\ txOf'[p] = NoTx) =>
              /\ callPc'[p] = "failed"
              /\ broadcast' = broadcast
              /\ nf3Nonce' = 0
              /\ mutexHolders' = {}]_vars

\* C24 (as claimed): whenever a call builds its envelope, the nonce it puts
\* in was read (and counted on) from the transaction count of the address it
\* puts in as from, or counted from 0 for the fresh account of a key just
\* set; it is never a nonce read or counted for another address.
C24_NonceOfFromAddress ==
    [][\A p \in Calls :
          (txOf[p] = NoTx /\ txOf'[p] # NoTx) =>
              nonceFrom \in {txOf'[p].from, "none"}]_vars

\* C25 (as claimed): every nonce from the count read from the chain up to the
\* local counter is the nonce of a transaction handed to the network, or of
\* one whose signing and broadcast are still under way.
C25_NoGapBelowCounter ==
    Envelopes # {} =>
        \A n \in chainCount .. (nf3Nonce - 1) :
            \/ \E i \in 1..Len(broadcast) : broadcast[i] = n
            \/ \E p \in Calls : callPc[p] = "built" /\ txOf[p].nonce = n

\* C26 (as claimed): the nonces handed to the network are in strictly
\* increasing order.
C26_BroadcastInNonceOrder ==
    \A i, j \in 1..Len(broadcast) : i < j => broadcast[i] < broadcast[j]

\* ------------------------------------------------------------------------
\* Nf3.startProposer, getNewBlockEmitter, startChallenger, getChallengeEmitter
\* ------------------------------------------------------------------------

\* connection.onopen: connection.send(...)
SubscriptionRequest(m) ==
    CASE m = "startProposer"       -> "blocks"
      [] m = "getNewBlockEmitter"  -> "blocks"
      [] m = "startChallenger"     -> "challenge"
      [] m = "getChallengeEmitter" -> "blocks"

\* connection.onmessage: if (type === ...)
HandledType(m) ==
    CASE m = "startProposer"       -> "block"
      [] m = "getNewBlockEmitter"  -> "block"
      [] m = "startChallenger"     -> "challenge"
      [] m = "getChallengeEmitter" -> "challenge"

\* the high-level method each emitter method is the lower-level form of
HighLevel(m) ==
    CASE m = "getNewBlockEmitter"  -> "startProposer"
      [] m = "getChallengeEmitter" -> "startChallenger"

Emitters == {"getNewBlockEmitter", "getChallengeEmitter"}

\* what the optimist can send: JSON of { type, txDataToSign }
Messages == [type : {"block", "challenge", "other"}, txDataToSign : 1..NumTxData]

\* the txDataToSign the method has submitted (startProposer, startChallenger)
\* or passed to emit('data', ...) (the emitters) after one more message
OnMessage(m, out, msg) ==
    IF msg.type = HandledType(m) THEN Append(out, msg.txDataToSign) ELSE out

\* the connection of method m opens
OnOpen(m) ==
    /\ wsSent[m] = <<>>
    /\ wsSent' = [wsSent EXCEPT ![m] = <<SubscriptionRequest(m)>>]
    /\ UNCHANGED << wsMessages, wsOut >>
    /\ UNCHANGED << adminVars, builderVars, mergeVars, nf3Vars, calldataVars,
                    startupVars >>

\* a message reaches the four connections once they are all open, so that
\* every method sees the same message sequence
Message ==
    \E msg \in Messages :
        /\ \A m \in Subscribers : wsSent[m] # <<>>
        /\ Len(wsMessages) < MaxMessages
        /\ wsMessages' = Append(wsMessages, msg)
        /\ wsOut' = [m \in Subscribers |-> OnMessage(m, wsOut[m], msg)]
        /\ UNCHANGED wsSent
        /\ UNCHANGED << adminVars, builderVars, mergeVars, nf3Vars, calldataVars,
                    startupVars >>

EmittersInit ==
    /\ AdminIdle /\ BuilderIdle /\ MergeIdle /\ Nf3Idle /\ CalldataIdle
    /\ StartupIdle
    /\ EmittersIdle

EmittersNext == (\E m \in Subscribers : OnOpen(m)) \/ Message

\* the four methods running on one Nf3, fed the same messages
SpecEmitters == EmittersInit /\ [][EmittersNext]_vars

\* C23 (as claimed): an emitter method that has opened its connection has
\* sent the subscription request its high-level method sends, and over any
\* message sequence it has emitted exactly the txDataToSign the high-level
\* method has submitted.
C23_EmittersAreCounterparts ==
    \A m \in Emitters :
        (wsSent[m] # <<>> /\ wsSent[HighLevel(m)] # <<>>) =>
            /\ wsSent[m] = wsSent[HighLevel(m)]
            /\ HandledType(m) = HandledType(HighLevel(m))
            /\ wsOut[m] = wsOut[HighLevel(m)]

\* ------------------------------------------------------------------------
\* getProposeBlockCalldata: the L2 block number of a proposed block
\* ------------------------------------------------------------------------

\* what getBlocks() can return, as block numbers: the stored blocks in
\* ascending order of blockNumberL2, any subset of 0..MaxBlockNumber
StoredLists ==
    { s \in UNION { [1..n -> 0..MaxBlockNumber] : n \in 0..(MaxBlockNumber + 1) } :
        \A i, j \in 1..Len(s) : i < j => s[i] < s[j] }

\* what the blockHashes record of the State contract can hold
OnChainRecords == UNION { [1..n -> 1..NumHashes] : n \in 0..MaxOnChain }

\* storedL2BlockNumbers.filter((num, index) => num - index === 0), with the
\* 0-based index of JavaScript
L2BlockNumbersSequenced(stored) ==
    LET keep == {i \in 1..Len(stored) : stored[i] - (i - 1) = 0}
        nth(k) == CHOOSE i \in keep : Cardinality({j \in keep : j < i}) = k - 1
    IN  [k \in 1..Cardinality(keep) |-> stored[nth(k)]]

\* L2BlockNumbersSequenced[L2BlockNumbersSequenced.length - 1] || -1: the
\* left operand is undefined for an empty array, and || also takes its right
\* operand when the left one is 0
LastOrMinusOne(sequenced) ==
    IF Len(sequenced) = 0 THEN 0 - 1
    ELSE IF sequenced[Len(sequenced)] = 0 THEN 0 - 1
    ELSE sequenced[Len(sequenced)]

NextCounterStuck(c) == c

\* counter++
NextCounter(c) == c + 1

\* stateContractInstance.methods.blockHashes(i).call() fails: i is not an
\* index of the record
ReadFailsAt(i) == i < 0 \/ i >= Len(blockHashes)

MatchesAlways(onChainBlockHash, blockHash) == TRUE

\* the loop goes on while (onChainBlockData.blockHash !== block.blockHash)
Matches(onChainBlockHash, blockHash) == onChainBlockHash = blockHash

\* getProposeBlockCalldata up to the loop: the block is decoded and hashed,
\* the stored blocks are read, counter starts at lastReliableL2BlockNumber
GetProposeBlockCalldata ==
    /\ cdPc = "called"
    /\ lastReliableL2BlockNumber' =
          LastOrMinusOne(L2BlockNumbersSequenced(storedL2BlockNumbers))
    /\ counter' = LastOrMinusOne(L2BlockNumbersSequenced(storedL2BlockNumbers))
    /\ cdPc' = "searching"
    /\ UNCHANGED << storedL2BlockNumbers, blockHashes, block, currentLeafCount >>
    /\ UNCHANGED << adminVars, builderVars, mergeVars, nf3Vars, emitterVars,
                    startupVars >>

\* one iteration of the do ... while loop; when the hash matches, the rest of
\* the function runs and it returns
LoopStep ==
    /\ cdPc = "searching"
    /\ counter' = NextCounter(counter)
    /\ IF ReadFailsAt(counter')
         THEN /\ cdPc' = "thrown"
              /\ UNCHANGED << block, currentLeafCount >>
         ELSE IF Matches(blockHashes[counter' + 1], block.blockHash)
         THEN /\ cdPc' = "returned"
              /\ block' = [block EXCEPT !.blockNumberL2 = counter']
              /\ currentLeafCount' = block.nCommitments + block.leafCount
         ELSE /\ cdPc' = "searching"
              /\ UNCHANGED << block, currentLeafCount >>
    /\ UNCHANGED << storedL2BlockNumbers, blockHashes, lastReliableL2BlockNumber >>
    /\ UNCHANGED << adminVars, builderVars, mergeVars, nf3Vars, emitterVars,
                    startupVars >>

\* getProposeBlockCalldata is called for a proposed block, with some blocks
\* stored and some on-chain record
CalldataInit ==
    /\ AdminIdle /\ BuilderIdle /\ MergeIdle /\ Nf3Idle /\ EmittersIdle
    /\ StartupIdle
    /\ cdPc = "called"
    /\ storedL2BlockNumbers \in StoredLists
    /\ blockHashes \in OnChainRecords
    /\ block \in [blockHash : 1..NumHashes, leafCount : 0..MaxLeaves,
                   nCommitments : 0..MaxLeaves, blockNumberL2 : {0 - 1}]
    /\ lastReliableL2BlockNumber = 0 - 1
    /\ counter = 0 - 1
    /\ currentLeafCount = 0

CalldataNext == GetProposeBlockCalldata \/ LoopStep

\* one call of getProposeBlockCalldata, for every stored list, on-chain
\* record and proposed block
SpecCalldata == CalldataInit /\ [][CalldataNext]_vars

\* the same, where a loop that can go on does
SpecCalldataFair == SpecCalldata /\ WF_vars(LoopStep)

\* the block hash is in the on-chain record
OnChain(blockHash) == \E i \in 1..Len(blockHashes) : blockHashes[i] = blockHash

\* C27: when getProposeBlockCalldata has returned, the on-chain entry at
\* block.blockNumberL2 equals block.blockHash, no index between
\* lastReliableL2BlockNumber and it has that hash, and currentLeafCount is
\* nCommitments + leafCount.
C27_ReturnsFirstMatchAboveReliable ==
    cdPc = "returned" =>
        /\ block.blockNumberL2 > lastReliableL2BlockNumber
        /\ block.blockNumberL2 < Len(blockHashes)
        /\ blockHashes[block.blockNumberL2 + 1] = block.blockHash
        /\ \A i \in (lastReliableL2BlockNumber + 1) .. (block.blockNumberL2 - 1) :
               blockHashes[i + 1] # block.blockHash
        /\ currentLeafCount = block.nCommitments + block.leafCount

\* the search started above stored blocks, passed a block with another hash
\* and returned the first of two blocks with the proposed hash
C27_Witness ==
    /\ cdPc = "returned"
    /\ storedL2BlockNumbers # <<>>
    /\ block.blockNumberL2 > lastReliableL2BlockNumber + 1
    /\ \E i \in 1..Len(blockHashes) :
          i > block.blockNumberL2 + 1 /\ blockHashes[i] = block.blockHash
    /\ currentLeafCount = 2

\* the largest n such that 0..n are all stored, -1 when 0 is not stored
GapFreeRunEnd(stored) ==
    LET numbers == {stored[i] : i \in 1..Len(stored)}
        ends == {n \in 0..MaxBlockNumber : \A k \in 0..n : k \in numbers}
    IN  IF ends = {} THEN 0 - 1 ELSE CHOOSE n \in ends : \A k \in ends : k <= n

\* C28 (as claimed): once computed, lastReliableL2BlockNumber is the end of
\* the gap-free run of stored block numbers that starts at 0, and -1 when
\* block 0 is not stored.
C28_LastReliableIsGapFreeRunEnd ==
    cdPc \in {"searching", "returned", "thrown"} =>
        lastReliableL2BlockNumber = GapFreeRunEnd(storedL2BlockNumbers)

\* C29 (as claimed): the error is raised only for a block whose hash is not
\* in the on-chain record, and a block that is in it, stored locally or not,
\* gets the number of an entry that holds its hash.
C29_EveryOnChainBlockNumbered ==
    /\ cdPc = "thrown" => ~OnChain(block.blockHash)
    /\ cdPc = "returned" =>
          /\ block.blockNumberL2 \in 0..(Len(blockHashes) - 1)
          /\ blockHashes[block.blockNumberL2 + 1] = block.blockHash

\* C30: the search loop terminates: a call that is searching ends by
\* returning or by throwing; it returns only on a matching entry and throws
\* only on a read past the end of the record; and every iteration adds
\* exactly one to the counter.
C30_SearchTerminates ==
    /\ (cdPc = "searching") ~> (cdPc \in {"returned", "thrown"})
    /\ [](cdPc = "returned" =>
            /\ ~ReadFailsAt(counter)
            /\ blockHashes[counter + 1] = block.blockHash)
    /\ [](cdPc = "thrown" => ReadFailsAt(counter))
    /\ [][cdPc = "searching" => counter' = counter + 1]_vars

\* the loop ran three times and threw
C30_Witness ==
    /\ cdPc = "thrown"
    /\ counter >= lastReliableL2BlockNumber + 3

\* ------------------------------------------------------------------------
\* startProposer(testEnvironment): the start-up of the proposer application
\* ------------------------------------------------------------------------

\* what axios.get(url + '/healthcheck') can give: a response with a status,
\* or a rejection
Responses == [status : {200, 204}, rejected : BOOLEAN]

\* Nf3.healthcheck: false when the request rejects or the status is not 200
healthcheck(res) ==
    IF res.rejected THEN FALSE
    ELSE IF res.status # 200 THEN FALSE
    ELSE TRUE

AfterHealthcheckIgnored(passed) == "register"

\* if (await nf3.healthcheck('optimist')) ... else throw new Error(...)
AfterHealthcheck(passed) == IF passed THEN "register" ELSE "thrown"

\* the call of submitTransaction that nf3.registerProposer makes
RegistrationCall == 1

Logged(event) == \E i \in 1..Len(startupLog) : startupLog[i] = event

\* await nf3.init(...) completes
InitDone ==
    /\ startProposerPc = "init"
    /\ startProposerPc' = "healthcheck"
    /\ startupLog' = Append(startupLog, "init")
    /\ UNCHANGED healthy
    /\ UNCHANGED << adminVars, builderVars, mergeVars, nf3Vars, emitterVars, calldataVars >>

\* await nf3.init(...) rejects: startProposer rejects
InitFails ==
    /\ startProposerPc = "init"
    /\ startProposerPc' = "thrown"
    /\ UNCHANGED << healthy, startupLog >>
    /\ UNCHANGED << adminVars, builderVars, mergeVars, nf3Vars, emitterVars, calldataVars >>

\* the healthcheck resolves: on true the code goes on to call
\* nf3.registerProposer, which posts to the optimist; on false it throws
Healthcheck ==
    \E res \in Responses :
        /\ startProposerPc = "healthcheck"
        /\ healthy' = IF healthcheck(res) THEN "true" ELSE "false"
        /\ startProposerPc' = AfterHealthcheck(healthcheck(res))
        /\ startupLog' =
              IF AfterHealthcheck(healthcheck(res)) = "register"
              THEN startupLog \o <<"healthcheck", "registerProposer">>
              ELSE Append(startupLog, "healthcheck")
        /\ UNCHANGED << adminVars, builderVars, mergeVars, nf3Vars, emitterVars,
                        calldataVars >>

\* registerProposer: the post to /proposer/register resolved and
\* submitTransaction is called with its txDataToSign
RegisterSubmits ==
    /\ startProposerPc = "register"
    /\ Submit(RegistrationCall)

\* await nf3.registerProposer(...) resolves: the transaction was sent; the
\* rest of startProposer runs: app.listen(...), then nf3.startProposer()
RegisterDone ==
    /\ startProposerPc = "register"
    /\ callPc[RegistrationCall] = "sent"
    /\ startProposerPc' = "done"
    /\ startupLog' = startupLog \o <<"registered", "listen", "startProposer">>
    /\ UNCHANGED healthy
    /\ UNCHANGED << adminVars, builderVars, mergeVars, nf3Vars, emitterVars, calldataVars >>

\* await nf3.registerProposer(...) rejects: the post, the count read, the
\* signing or the sending failed; startProposer rejects
RegisterFails ==
    /\ startProposerPc = "register"
    /\ callPc[RegistrationCall] \in {"idle", "failed", "sendFailed"}
    /\ startProposerPc' = "thrown"
    /\ UNCHANGED << healthy, startupLog >>
    /\ UNCHANGED << adminVars, builderVars, mergeVars, nf3Vars, emitterVars, calldataVars >>

\* a 'block' message reaches the connection nf3.startProposer() opened: its
\* handler calls submitTransaction
BlockMessage(p) ==
    /\ p # RegistrationCall
    /\ Logged("startProposer")
    /\ Submit(p)

StartupInit ==
    /\ AdminIdle /\ BuilderIdle /\ MergeIdle /\ EmittersIdle /\ CalldataIdle
    /\ nf3Nonce = 0
    /\ mutexQueue = <<>>
    /\ mutexHolders = {}
    /\ callPc = [p \in Calls |-> "idle"]
    /\ txOf = [p \in Calls |-> NoTx]
    /\ chainCount \in 0..MaxChainCount
    /\ broadcast = <<>>
    /\ ethereumAddress = "account"
    /\ readFor = [p \in Calls |-> "none"]
    /\ nonceFrom = "none"
    /\ startProposerPc = "init"
    /\ healthy = "unknown"
    /\ startupLog = <<>>

StartupNext ==
    \/ InitDone
    \/ InitFails
    \/ Healthcheck
    \/ RegisterSubmits
    \/ RegisterDone
    \/ RegisterFails
    \/ \E p \in Calls :
          \/ BlockMessage(p)
          \/ EnterAndRead(p)
          \/ EnterAndBuild(p)
          \/ ReadDone(p)
          \/ LogDone(p)
          \/ ReadFails(p)
          \/ Send(p)
          \/ SendFails(p)

\* the proposer application from its start, with the transactions it submits
SpecStartup == StartupInit /\ [][StartupNext]_vars

\* event a precedes event b in the start-up
Before(a, b) ==
    \E i, j \in 1..Len(startupLog) :
        i < j /\ startupLog[i] = a /\ startupLog[j] = b

\* C31: registerProposer is called only after init completed and the
\* healthcheck returned true; the API listener and nf3.startProposer are
\* started only after the registration completed, and no block is proposed
\* before that; when the healthcheck returns false the start-up throws and
\* never registers, listens or proposes.
C31_StartupStrictlyOrdered ==
    /\ (Logged("registerProposer") \/ callPc[RegistrationCall] # "idle") =>
          /\ healthy = "true"
          /\ Before("init", "healthcheck")
          /\ Before("healthcheck", "registerProposer")
    /\ (Logged("listen") \/ Logged("startProposer")) =>
          /\ callPc[RegistrationCall] = "sent"
          /\ Before("registerProposer", "registered")
          /\ Before("registered", "listen")
          /\ Before("listen", "startProposer")
    /\ (\E p \in Calls : p # RegistrationCall /\ callPc[p] # "idle") =>
          Logged("startProposer")
    /\ healthy = "false" =>
          /\ startProposerPc = "thrown"
          /\ ~Logged("registerProposer") /\ ~Logged("listen") /\ ~Logged("startProposer")
          /\ \A p \in Calls : callPc[p] = "idle"
          /\ broadcast = <<>>

\* the start-up ran to its end and a proposed block was sent after the
\* registration
C31_Witness ==
    /\ startProposerPc = "done"
    /\ healthy = "true"
    /\ \E p \in Calls : p # RegistrationCall /\ callPc[p] = "sent"
    /\ Len(broadcast) >= 2

====
